---- MODULE Spec2Model ----
(***************************************************************************)
(* Model of the image-comparison utility of the design-system repository   *)
(* (tests/utils/image-compare.ts): a file system holding PNG files, and    *)
(* compareImages(figmaPath, actualPath, threshold), which decodes two      *)
(* files, writes one diff artifact and returns a CompareResult.            *)
(*                                                                         *)
(* Representation                                                          *)
(*   path       a sequence of one-character strings                        *)
(*   pixel      <<r, g, b, a>>, each channel in 0..255                     *)
(*   image      [width, height, data], data the row-major pixel sequence   *)
(*   file       [kind |-> "png", img |-> image] or a file whose bytes do   *)
(*              not decode (kind "corrupt")                                *)
(*   number     a JavaScript number as [kind, num, den]: a reduced         *)
(*              fraction, or NaN (the value of 0/0)                        *)
(*   threshold  an integer k standing for k/20 (0.15 is 3, 0.20 is 4)      *)
(* The colour arithmetic of pixelmatch is carried out in fixed point:      *)
(* YIQ coefficients in hundredths, deltas in ten-thousandths.              *)
(***************************************************************************)
EXTENDS Integers, Sequences, FiniteSets, TLC

\* fs      the file system: path -> file
\* last    the last compareImages call and its outcome
\* button  the props and the outcome of the last render of <Button>
\* test    the "matches Figma" test of one key: its position, attachments
\*         and outcome
\* par     two compareImages calls running side by side: the file system
\*         they started from and, per call, its arguments, position, the
\*         images it has read and its outcome
VARIABLES fs, last, button, test, par, excludeAA

vars == <<fs, last, button, test, par, excludeAA>>

\* ------------------------------------------------------------------ bounds

\* Largest width and largest height of an image held by an input file.
MaxDim == 2

\* ------------------------------------------------------------------ paths

PNG_EXT == <<".", "p", "n", "g">>

DIFF_EXT == <<"-", "d", "i", "f", "f", ".", "p", "n", "g">>

\* tests/__figma__/<key>.png, the reference
RefPath == <<"r">> \o PNG_EXT

\* tests/__screenshots__/<key>.png, the candidate
ShotPath == <<"a">> \o PNG_EXT

\* a candidate below a directory whose name itself holds ".png"
NestedPath == <<"d">> \o PNG_EXT \o <<"/", "a">> \o PNG_EXT

\* a candidate whose name has no ".png" in it
BarePath == <<"a">>

CandPaths == {ShotPath, NestedPath, BarePath}

Paths == {RefPath} \cup CandPaths

\* The indices at which pat occurs in s.
Occurrences(s, pat) ==
  {i \in 1..(Len(s) - Len(pat) + 1) : SubSeq(s, i, i + Len(pat) - 1) = pat}

Min(S) == CHOOSE m \in S : \A n \in S : m <= n

Max2(a, b) == IF a >= b THEN a ELSE b

\* String.prototype.replace(pat, rep) with a string pattern: the FIRST
\* occurrence of pat is replaced, and s is returned as is when there is none.
Replace(s, pat, rep) ==
  IF Occurrences(s, pat) = {}
  THEN s
  ELSE LET i == Min(Occurrences(s, pat))
       IN  SubSeq(s, 1, i - 1) \o rep \o SubSeq(s, i + Len(pat), Len(s))

\* Every artifact written under one fixed name.
DiffPathOf_Fixed(actualPath) == <<"d", "i", "f", "f">> \o PNG_EXT

\* actualPath.replace('.png', '-diff.png')
DiffPathOf(actualPath) == Replace(actualPath, PNG_EXT, DIFF_EXT)

\* ----------------------------------------------------------------- pixels

Black  == <<0, 0, 0, 255>>
Navy   == <<0, 0, 128, 255>>
ClearK == <<0, 0, 0, 0>>
ClearR == <<255, 0, 0, 0>>
White  == <<255, 255, 255, 255>>
Red    == <<255, 0, 0, 255>>

Palette == {Black, Navy, ClearK, ClearR}

\* ----------------------------------------------------------------- images

Image(w, h, d) == [width |-> w, height |-> h, data |-> d]

Uniform(w, h, c) == Image(w, h, [i \in 1..(w * h) |-> c])

\* black except for the last pixel (bottom right), which is c
Spot(w, h, c) ==
  Image(w, h, [i \in 1..(w * h) |-> IF i = w * h THEN c ELSE Black])

Dim == 0..MaxDim

Images ==
  {Uniform(w, h, c) : w \in Dim, h \in Dim, c \in Palette}
    \cup {Spot(d[1], d[2], Navy) : d \in {e \in Dim \X Dim : e[1] * e[2] >= 2}}

NoImage == Image(0, 0, <<>>)

PngFile(img) == [kind |-> "png", img |-> img]

CorruptFile == [kind |-> "corrupt", img |-> NoImage]

FileContents == {PngFile(img) : img \in Images} \cup {CorruptFile}

\* The pixel of img at column x, row y (both from 0).
PixelAt(img, x, y) == img.data[y * img.width + x + 1]

\* ---------------------------------------------------------------- numbers

RECURSIVE GCD(_, _)
GCD(a, b) == IF b = 0 THEN a ELSE GCD(b, a % b)

Finite(n, d) == [kind |-> "finite", num |-> n \div GCD(n, d), den |-> d \div GCD(n, d)]

NaN == [kind |-> "NaN", num |-> 0, den |-> 0]

\* The number literal 1.
One == Finite(1, 1)

\* a / b on non-negative integers with a <= b or b = 0: 0 / 0 is NaN.
Divide(a, b) ==
  IF b # 0 THEN Finite(a, b)
  ELSE IF a = 0 THEN NaN
  ELSE [kind |-> "Infinity", num |-> 1, den |-> 0]

\* ------------------------------------------------------------- pixelmatch

\* blend(c, a): a channel over a white background, alpha a out of 255.
blend(c, a) == 255 - ((255 - c) * a) \div 255

\* A pixel as pixelmatch sees it: unchanged when opaque, else blended.
Blended(p) ==
  IF p[4] < 255
  THEN <<blend(p[1], p[4]), blend(p[2], p[4]), blend(p[3], p[4])>>
  ELSE <<p[1], p[2], p[3]>>

\* YIQ, in hundredths.
rgb2y(c) == 30 * c[1] + 59 * c[2] + 11 * c[3]
rgb2i(c) == 60 * c[1] - 28 * c[2] - 32 * c[3]
rgb2q(c) == 21 * c[1] - 52 * c[2] + 31 * c[3]

\* |colorDelta(img1, img2, k, m)| for two pixels, in ten-thousandths:
\* 0 for bit-identical pixels, else 0.5053 y^2 + 0.299 i^2 + 0.1957 q^2.
colorDelta(p1, p2) ==
  IF p1 = p2 THEN 0
  ELSE LET c1 == Blended(p1)
           c2 == Blended(p2)
           y  == rgb2y(c1) - rgb2y(c2)
           i  == rgb2i(c1) - rgb2i(c2)
           q  == rgb2q(c1) - rgb2q(c2)
       IN  ((y * y) \div 10000) * 5053
             + ((i * i) \div 10000) * 2990
             + ((q * q) \div 10000) * 1957

\* maxDelta = 35215 * threshold * threshold, in ten-thousandths, for the
\* threshold k / 20.
maxDelta(k) == 35215 * 25 * k * k

\* Whether pixelmatch classifies the pixel pair as different (includeAA is
\* true, so no pixel is set aside as anti-aliased).
Differs(p1, p2, k) == colorDelta(p1, p2) > maxDelta(k)

\* drawGrayPixel: the reference pixel's luma blended at alpha 0.1.
GrayPixel(p) ==
  LET y100 == rgb2y(<<p[1], p[2], p[3]>>)
      val  == 255 - ((25500 - y100) * p[4] + 254999) \div 255000
  IN  <<val, val, val, 255>>

\* pixelmatch(img1, img2, output, width, height, {threshold, includeAA: true}):
\* the number of differing pixels ...
pixelmatch(d1, d2, k) ==
  Cardinality({i \in 1..Len(d1) : Differs(d1[i], d2[i], k)})

\* ... and the output buffer: red where the pixels differ, gray elsewhere.
pixelmatchOutput(d1, d2, k) ==
  [i \in 1..Len(d1) |-> IF Differs(d1[i], d2[i], k) THEN Red ELSE GrayPixel(d1[i])]

\* ------------------------------------------- pixelmatch: anti-aliasing
\* The test that the includeAA option switches off.

Min2(a, b) == IF a <= b THEN a ELSE b

\* x1 === x0 || x1 === x2 || y1 === y0 || y1 === y2, with the window
\* clamped to the image.
OnEdge(img, x1, y1) ==
  \/ x1 = Max2(x1 - 1, 0) \/ x1 = Min2(x1 + 1, img.width - 1)
  \/ y1 = Max2(y1 - 1, 0) \/ y1 = Min2(y1 + 1, img.height - 1)

\* The adjacent pixels of (x1, y1) in the order the loops visit them:
\* x from x0 to x2, and for each x, y from y0 to y2.
Adjacent(img, x1, y1) ==
  LET x0 == Max2(x1 - 1, 0)
      y0 == Max2(y1 - 1, 0)
      x2 == Min2(x1 + 1, img.width - 1)
      y2 == Min2(y1 + 1, img.height - 1)
      ny == y2 - y0 + 1
      window == [n \in 1..((x2 - x0 + 1) * ny) |->
                  <<x0 + ((n - 1) \div ny), y0 + ((n - 1) % ny)>>]
  IN  SelectSeq(window, LAMBDA c : c # <<x1, y1>>)

\* colorDelta(img, img, pos, pos2, true): the brightness difference of two
\* pixels of one image, 0 for bit-identical pixels.
brightnessDelta(p1, p2) ==
  IF p1 = p2 THEN 0 ELSE rgb2y(Blended(p1)) - rgb2y(Blended(p2))

\* hasManySiblings: the pixel has 3+ adjacent pixels of the same colour
\* (an edge counts as one).
hasManySiblings(img, x1, y1) ==
  LET adj == Adjacent(img, x1, y1)
      zeroes == (IF OnEdge(img, x1, y1) THEN 1 ELSE 0)
                  + Cardinality({n \in 1..Len(adj) :
                      PixelAt(img, adj[n][1], adj[n][2]) = PixelAt(img, x1, y1)})
  IN  zeroes > 2

\* antialiased(img, x1, y1, width, height, img2).
antialiased(img, x1, y1, img2) ==
  LET adj == Adjacent(img, x1, y1)
      delta == [n \in 1..Len(adj) |->
                 brightnessDelta(PixelAt(img, x1, y1),
                                 PixelAt(img, adj[n][1], adj[n][2]))]
      zeroes == (IF OnEdge(img, x1, y1) THEN 1 ELSE 0)
                  + Cardinality({n \in 1..Len(adj) : delta[n] = 0})
      darker   == {n \in 1..Len(adj) : delta[n] < 0}
      brighter == {n \in 1..Len(adj) : delta[n] > 0}
      \* the first adjacent pixel with the least / the greatest delta
      minN == CHOOSE n \in darker : \A m \in darker :
                delta[n] < delta[m] \/ (delta[n] = delta[m] /\ n <= m)
      maxN == CHOOSE n \in brighter : \A m \in brighter :
                delta[n] > delta[m] \/ (delta[n] = delta[m] /\ n <= m)
  IN  IF zeroes > 2 THEN FALSE
      ELSE IF darker = {} \/ brighter = {} THEN FALSE
      ELSE \/ /\ hasManySiblings(img, adj[minN][1], adj[minN][2])
              /\ hasManySiblings(img2, adj[minN][1], adj[minN][2])
           \/ /\ hasManySiblings(img, adj[maxN][1], adj[maxN][2])
              /\ hasManySiblings(img2, adj[maxN][1], adj[maxN][2])

\* Whether pixelmatch classifies the pixel at index i (from 1) of two
\* images of one size as anti-aliased: antialiased(img1, ...) ||
\* antialiased(img2, ...).
AntiAliasedAt(img1, img2, i) ==
  LET x == (i - 1) % img1.width
      y == (i - 1) \div img1.width
  IN  antialiased(img1, x, y, img2) \/ antialiased(img2, x, y, img1)

Yellow == <<255, 255, 0, 255>>

\* pixelmatch without includeAA (the library's default): a pixel over the
\* threshold that is anti-aliased is drawn yellow and not counted.
pixelmatchExcludingAA(img1, img2, k) ==
  Cardinality({i \in 1..Len(img1.data) :
    Differs(img1.data[i], img2.data[i], k) /\ ~AntiAliasedAt(img1, img2, i)})

pixelmatchOutputExcludingAA(img1, img2, k) ==
  [i \in 1..Len(img1.data) |->
    IF ~Differs(img1.data[i], img2.data[i], k) THEN GrayPixel(img1.data[i])
    ELSE IF AntiAliasedAt(img1, img2, i) THEN Yellow
    ELSE Red]

\* ---------------------------------------------------------- compareImages

\* The candidate blitted right after the reference instead of at maxW.
SideBySide_Adjacent(figmaImg, actualImg) ==
  LET maxW == Max2(figmaImg.width, actualImg.width)
      maxH == Max2(figmaImg.height, actualImg.height)
      W    == maxW * 2
      fw   == figmaImg.width
  IN  Image(W, maxH,
        [i \in 1..(W * maxH) |->
          LET x == (i - 1) % W
              y == (i - 1) \div W
          IN  IF x >= fw /\ x < fw + actualImg.width /\ y < actualImg.height
              THEN PixelAt(actualImg, x - fw, y)
              ELSE IF x < fw /\ y < figmaImg.height
              THEN PixelAt(figmaImg, x, y)
              ELSE White])

\* new PNG({width, height}); data.fill(0xff); the two PNG.bitblt calls:
\* figma at (0, 0), actual at (maxW, 0).
SideBySide(figmaImg, actualImg) ==
  LET maxW == Max2(figmaImg.width, actualImg.width)
      maxH == Max2(figmaImg.height, actualImg.height)
      W    == maxW * 2
  IN  Image(W, maxH,
        [i \in 1..(W * maxH) |->
          LET x == (i - 1) % W
              y == (i - 1) \div W
          IN  IF x >= maxW /\ x < maxW + actualImg.width /\ y < actualImg.height
              THEN PixelAt(actualImg, x - maxW, y)
              ELSE IF x < figmaImg.width /\ y < figmaImg.height
              THEN PixelAt(figmaImg, x, y)
              ELSE White])

Result(ratio, dp, tp, path, mismatch) ==
  [diffRatio |-> ratio, diffPixels |-> dp, totalPixels |-> tp,
   diffImagePath |-> path, sizeMismatch |-> mismatch]

NoResult == Result(NaN, 0 - 1, 0 - 1, <<>>, FALSE)

Returned(r, newFs) == [status |-> "returned", error |-> "none", result |-> r, fs |-> newFs]

Threw(e, oldFs) == [status |-> "threw", error |-> e, result |-> NoResult, fs |-> oldFs]

\* fs.writeFileSync(path, PNG.sync.write(img))
WriteFile(fsys, path, img) ==
  [p \in (DOMAIN fsys) \cup {path} |-> IF p = path THEN PngFile(img) ELSE fsys[p]]

\* PNG.sync.read(fs.readFileSync(path)): "ok", or the error thrown.
ReadError(fsys, path) ==
  IF path \notin DOMAIN fsys THEN "ENOENT"
  ELSE IF fsys[path].kind # "png" THEN "DecodeError"
  ELSE "ok"

\* The size-mismatch branch returning without having written the artifact.
MismatchBranch_NoWrite(fsys, figmaImg, actualImg, actualPath) ==
  LET maxW == Max2(figmaImg.width, actualImg.width)
      maxH == Max2(figmaImg.height, actualImg.height)
      diffImagePath == DiffPathOf(actualPath)
  IN  IF maxW * 2 = 0 \/ maxH = 0
      THEN Threw("TypeError", fsys)
      ELSE Returned(Result(One, maxW * maxH, maxW * maxH, diffImagePath, TRUE), fsys)

\* The size-mismatch branch.
MismatchBranch(fsys, figmaImg, actualImg, actualPath) ==
  LET maxW == Max2(figmaImg.width, actualImg.width)
      maxH == Max2(figmaImg.height, actualImg.height)
      diffImagePath == DiffPathOf(actualPath)
  IN  IF maxW * 2 = 0 \/ maxH = 0
      THEN \* a PNG of no area has no data buffer: diff.data.fill throws
           Threw("TypeError", fsys)
      ELSE Returned(
             Result(One, maxW * maxH, maxW * maxH, diffImagePath, TRUE),
             WriteFile(fsys, diffImagePath, SideBySide(figmaImg, actualImg)))

\* The equal-size branch comparing the reference with the still blank diff
\* buffer (the second and third arguments of pixelmatch exchanged).
EqualBranch_BlankBuffer(fsys, figmaImg, actualImg, actualPath, threshold, encodes) ==
  LET width  == figmaImg.width
      height == figmaImg.height
      blank  == [i \in 1..(width * height) |-> <<0, 0, 0, 0>>]
      diffPixels == pixelmatch(figmaImg.data, blank, threshold)
      diff == Image(width, height, pixelmatchOutput(figmaImg.data, blank, threshold))
      diffImagePath == DiffPathOf(actualPath)
  IN  IF width * height = 0 /\ ~encodes
      THEN Threw("EncodeError", fsys)
      ELSE Returned(
             Result(Divide(diffPixels, width * height), diffPixels,
                    width * height, diffImagePath, FALSE),
             WriteFile(fsys, diffImagePath, diff))

\* The equal-size branch handing pixelmatch 1 - threshold.
EqualBranch_InvertedThreshold(fsys, figmaImg, actualImg, actualPath, threshold, encodes) ==
  LET width  == figmaImg.width
      height == figmaImg.height
      diffPixels == pixelmatch(figmaImg.data, actualImg.data, 20 - threshold)
      diff == Image(width, height,
                    pixelmatchOutput(figmaImg.data, actualImg.data, 20 - threshold))
      diffImagePath == DiffPathOf(actualPath)
  IN  IF width * height = 0 /\ ~encodes
      THEN Threw("EncodeError", fsys)
      ELSE Returned(
             Result(Divide(diffPixels, width * height), diffPixels,
                    width * height, diffImagePath, FALSE),
             WriteFile(fsys, diffImagePath, diff))

\* The equal-size branch with the threshold argument dropped from the
\* pixelmatch options, so that the default 0.15 is used.
EqualBranch_DefaultThreshold(fsys, figmaImg, actualImg, actualPath, threshold, encodes) ==
  LET width  == figmaImg.width
      height == figmaImg.height
      diffPixels == pixelmatch(figmaImg.data, actualImg.data, 3)
      diff == Image(width, height, pixelmatchOutput(figmaImg.data, actualImg.data, 3))
      diffImagePath == DiffPathOf(actualPath)
  IN  IF Len(figmaImg.data) # Len(actualImg.data)
      THEN Threw("Error", fsys)
      ELSE IF width * height = 0 /\ ~encodes
      THEN Threw("EncodeError", fsys)
      ELSE Returned(
             Result(Divide(diffPixels, width * height), diffPixels,
                    width * height, diffImagePath, FALSE),
             WriteFile(fsys, diffImagePath, diff))

\* The equal-size branch with includeAA left out of the pixelmatch options,
\* so that the library's default (false) applies.
EqualBranch_ExcludeAA(fsys, figmaImg, actualImg, actualPath, threshold, encodes) ==
  LET width  == figmaImg.width
      height == figmaImg.height
      diffPixels == IF Len(figmaImg.data) = Len(actualImg.data)
                    THEN pixelmatchExcludingAA(figmaImg, actualImg, threshold)
                    ELSE 0
      diff == Image(width, height,
                    IF Len(figmaImg.data) = Len(actualImg.data)
                    THEN pixelmatchOutputExcludingAA(figmaImg, actualImg, threshold)
                    ELSE <<>>)
      diffImagePath == DiffPathOf(actualPath)
  IN  IF Len(figmaImg.data) # Len(actualImg.data)
      THEN Threw("Error", fsys)
      ELSE IF width * height = 0 /\ ~encodes
      THEN Threw("EncodeError", fsys)
      ELSE Returned(
             Result(Divide(diffPixels, width * height), diffPixels,
                    width * height, diffImagePath, FALSE),
             WriteFile(fsys, diffImagePath, diff))

\* The equal-size branch. encodes: whether PNG.sync.write accepts the
\* buffer-less diff of two images of no area.
EqualBranch(fsys, figmaImg, actualImg, actualPath, threshold, encodes) ==
  LET width  == figmaImg.width
      height == figmaImg.height
      diffPixels == pixelmatch(figmaImg.data, actualImg.data, threshold)
      diff == Image(width, height,
                    pixelmatchOutput(figmaImg.data, actualImg.data, threshold))
      diffImagePath == DiffPathOf(actualPath)
  IN  IF Len(figmaImg.data) # Len(actualImg.data)
      THEN \* pixelmatch: "Image sizes do not match."
           Threw("Error", fsys)
      ELSE IF width * height = 0 /\ ~encodes
      THEN Threw("EncodeError", fsys)
      ELSE Returned(
             Result(Divide(diffPixels, width * height), diffPixels,
                    width * height, diffImagePath, FALSE),
             WriteFile(fsys, diffImagePath, diff))

\* The size test written with && for ||: a mismatch only when both differ.
SameSize_Either(figmaImg, actualImg) ==
  figmaImg.width = actualImg.width \/ figmaImg.height = actualImg.height

SameSize(figmaImg, actualImg) ==
  figmaImg.width = actualImg.width /\ figmaImg.height = actualImg.height

\* compareImages with the reads wrapped in a catch that answers "no
\* difference" when a file cannot be read or decoded.
compareImages_Swallow(fsys, figmaPath, actualPath, threshold, encodes) ==
  IF ReadError(fsys, figmaPath) # "ok" \/ ReadError(fsys, actualPath) # "ok"
  THEN Returned(Result(Finite(0, 1), 0, 0, DiffPathOf(actualPath), FALSE), fsys)
  ELSE LET figmaImg  == fsys[figmaPath].img
           actualImg == fsys[actualPath].img
       IN  IF ~SameSize(figmaImg, actualImg)
           THEN MismatchBranch(fsys, figmaImg, actualImg, actualPath)
           ELSE EqualBranch(fsys, figmaImg, actualImg, actualPath, threshold, encodes)

\* compareImages(figmaPath, actualPath, threshold) on the file system fsys.
compareImages(fsys, figmaPath, actualPath, threshold, encodes) ==
  IF ReadError(fsys, figmaPath) # "ok" THEN Threw(ReadError(fsys, figmaPath), fsys)
  ELSE IF ReadError(fsys, actualPath) # "ok" THEN Threw(ReadError(fsys, actualPath), fsys)
  ELSE LET figmaImg  == fsys[figmaPath].img
           actualImg == fsys[actualPath].img
       IN  IF ~SameSize(figmaImg, actualImg)
           THEN MismatchBranch(fsys, figmaImg, actualImg, actualPath)
           ELSE EqualBranch(fsys, figmaImg, actualImg, actualPath, threshold, encodes)

\* ----------------------------------------------------------------- Button

VARIANTS == {"contained", "outlined", "text"}

SIZES == {"large", "medium", "small"}

COLORS == {"primary", "secondary", "error", "warning", "info", "success"}

Token(main, hover, rgb) == [main |-> main, hover |-> hover, rgb |-> rgb]

\* The token table with the warning colour of the stock theme left in.
COLOR_TOKENS_Drift ==
  [c \in COLORS |->
    CASE c = "primary"   -> Token("#265DA5", "#003476", "38,93,165")
      [] c = "secondary" -> Token("#FFA100", "#C67200", "255,161,0")
      [] c = "error"     -> Token("#FF3B30", "#C30005", "255,59,48")
      [] c = "warning"   -> Token("#ED6C02", "#C67200", "237,108,2")
      [] c = "info"      -> Token("#007AFF", "#004FCB", "0,122,255")
      [] c = "success"   -> Token("#34C759", "#00952B", "52,199,89")]

COLOR_TOKENS ==
  [c \in COLORS |->
    CASE c = "primary"   -> Token("#265DA5", "#003476", "38,93,165")
      [] c = "secondary" -> Token("#FFA100", "#C67200", "255,161,0")
      [] c = "error"     -> Token("#FF3B30", "#C30005", "255,59,48")
      [] c = "warning"   -> Token("#FFA100", "#C67200", "255,161,0")
      [] c = "info"      -> Token("#007AFF", "#004FCB", "0,122,255")
      [] c = "success"   -> Token("#34C759", "#00952B", "52,199,89")]

\* The main colours of the test's TOKENS table.
TOKENS ==
  [c \in COLORS |->
    CASE c = "primary"   -> "#265DA5"
      [] c = "secondary" -> "#FFA100"
      [] c = "error"     -> "#FF3B30"
      [] c = "warning"   -> "#FFA100"
      [] c = "info"      -> "#007AFF"
      [] c = "success"   -> "#34C759"]

\* A CSS value: the pieces of the string, in order.
Css(s) == <<s>>

\* `rgba(${rgb}, <alpha>)`
Rgba(rgb, alpha) == <<"rgba(", rgb, ", ", alpha, ")">>

\* The disabled branch testing 'contained' for the border as well.
buildVars_BorderOnContained(variant, color, disabled) ==
  IF disabled
  THEN ("--btn-disabled-bg" :>
          (IF variant = "contained" THEN Css("rgba(0,0,0,0.12)") ELSE Css("transparent")))
       @@ ("--btn-disabled-border" :>
          (IF variant = "contained" THEN Css("rgba(0,0,0,0.12)") ELSE Css("transparent")))
  ELSE ("--btn-bg" :> Css(COLOR_TOKENS[color].main))

buildVars(variant, color, disabled) ==
  IF disabled
  THEN ("--btn-disabled-bg" :>
          (IF variant = "contained" THEN Css("rgba(0,0,0,0.12)") ELSE Css("transparent")))
       @@ ("--btn-disabled-border" :>
          (IF variant = "outlined" THEN Css("rgba(0,0,0,0.12)") ELSE Css("transparent")))
  ELSE LET main  == COLOR_TOKENS[color].main
           hover == COLOR_TOKENS[color].hover
           rgb   == COLOR_TOKENS[color].rgb
           hoverBg  == Rgba(rgb, "0.04")
           activeBg == Rgba(rgb, "0.12")
       IN  IF variant = "contained"
           THEN ("--btn-bg" :> Css(main))
                @@ ("--btn-hover-bg" :> Css(hover))
                @@ ("--btn-active-bg" :> Css(hover))
                @@ ("--btn-color" :> Css("#ffffff"))
                @@ ("--btn-focus-ring" :> Css(main))
           ELSE IF variant = "outlined"
           THEN ("--btn-bg" :> Css("transparent"))
                @@ ("--btn-hover-bg" :> hoverBg)
                @@ ("--btn-active-bg" :> activeBg)
                @@ ("--btn-color" :> Css(main))
                @@ ("--btn-border" :> Rgba(rgb, "0.5"))
                @@ ("--btn-hover-border" :> Rgba(rgb, "0.5"))
                @@ ("--btn-focus-ring" :> Css(main))
           ELSE ("--btn-bg" :> Css("transparent"))
                @@ ("--btn-hover-bg" :> hoverBg)
                @@ ("--btn-active-bg" :> activeBg)
                @@ ("--btn-color" :> Css(main))
                @@ ("--btn-focus-ring" :> Css(main))

\* Button(props): the rendered element's style and class list.
Button(variant, size, color, disabled) ==
  [variant |-> variant, size |-> size, color |-> color, disabled |-> disabled,
   style |-> buildVars(variant, color, disabled),
   className |-> <<"btn", <<"btn--", variant>>, <<"btn--", size>>>>]

\* The props' defaults: contained, medium, primary, enabled.
DefaultButton == Button("contained", "medium", "primary", FALSE)

\* ------------------------------------------------ the Figma comparison test

\* FIGMA_DIFF_THRESHOLD = 0.20, in twentieths.
FIGMA_DIFF_THRESHOLD == 4

\* x <= k / 20, as toBeLessThanOrEqual decides it: false for NaN.
LessThanOrEqual(x, k) == x.kind = "finite" /\ x.num * 20 <= k * x.den

TestState(pc, attachments, outcome, warned) ==
  [pc |-> pc, attachments |-> attachments, outcome |-> outcome, warned |-> warned]

\* The test before its body runs.
NoTest == TestState("start", <<>>, "pending", FALSE)

Attachment(name, path) == [name |-> name, path |-> path]

\* The gate applying expect() to a size-mismatch result as well.
GateOutcome_AlwaysExpect(result) ==
  IF LessThanOrEqual(result.diffRatio, FIGMA_DIFF_THRESHOLD)
  THEN [outcome |-> "passed", warned |-> FALSE]
  ELSE [outcome |-> "failed", warned |-> FALSE]

\* if (result.sizeMismatch) console.warn(...) else expect(result.diffRatio)
\* .toBeLessThanOrEqual(FIGMA_DIFF_THRESHOLD)
GateOutcome(result) ==
  IF result.sizeMismatch
  THEN [outcome |-> "passed", warned |-> TRUE]
  ELSE IF LessThanOrEqual(result.diffRatio, FIGMA_DIFF_THRESHOLD)
  THEN [outcome |-> "passed", warned |-> FALSE]
  ELSE [outcome |-> "failed", warned |-> FALSE]

\* ------------------------------------------------- two calls side by side

ProcIds == {1, 2}

Proc(figmaPath, actualPath, pc, figmaImg, actualImg, status, error, result) ==
  [figmaPath |-> figmaPath, actualPath |-> actualPath, pc |-> pc,
   figmaImg |-> figmaImg, actualImg |-> actualImg,
   status |-> status, error |-> error, result |-> result]

\* A call about to read its reference.
NewProc(figmaPath, actualPath) ==
  Proc(figmaPath, actualPath, "readFigma", NoImage, NoImage, "none", "none", NoResult)

\* No calls side by side.
NoPar == [fs0 |-> << >>, proc |-> [i \in ProcIds |-> NewProc(<<>>, <<>>)]]

\* ------------------------------------------------------------ the machine

\* Thresholds, in twentieths: 0, the default 0.15, the test's 0.20, and 1.
Thresholds == {0, 3, 4, 20}

AbsentFile == [kind |-> "absent", img |-> NoImage]

MaybeFile == FileContents \cup {AbsentFile}

\* The reference file holds r; every candidate path holds a.
MkFs(r, a) ==
  LET at(p) == IF p = RefPath THEN r ELSE a
  IN  [p \in {q \in Paths : at(q).kind # "absent"} |-> at(p)]

NoCall ==
  [status |-> "none", error |-> "none", result |-> NoResult,
   figmaPath |-> <<>>, actualPath |-> <<>>, threshold |-> 0, pre |-> MkFs(AbsentFile, AbsentFile)]

Init ==
  /\ \E r \in MaybeFile, a \in MaybeFile : fs = MkFs(r, a)
  /\ last = NoCall
  /\ button = DefaultButton
  /\ test = NoTest
  /\ excludeAA = FALSE
  /\ par = NoPar

\* The record of a call and its outcome.
CallRecord(out, figmaPath, actualPath, threshold, pre) ==
  [status |-> out.status, error |-> out.error, result |-> out.result,
   figmaPath |-> figmaPath, actualPath |-> actualPath,
   threshold |-> threshold, pre |-> pre]

\* One call of compareImages; last records the call and its outcome.
Compare(figmaPath, actualPath, threshold, encodes) ==
  /\ last.status = "none"
  /\ LET out == compareImages(fs, figmaPath, actualPath, threshold, encodes)
     IN  /\ fs' = out.fs
         /\ last' = CallRecord(out, figmaPath, actualPath, threshold, fs)
  /\ UNCHANGED <<button, test, par, excludeAA>>

Next ==
  \E figmaPath \in Paths, actualPath \in Paths, threshold \in Thresholds, encodes \in BOOLEAN :
    Compare(figmaPath, actualPath, threshold, encodes)

Spec == Init /\ [][Next]_vars

\* ------------------------------------------------- the last call, for the
\* properties below

Called == last.status # "none"

HasReturned == last.status = "returned"

\* Both input files of the last call were read and decoded.
Decoded ==
  /\ Called
  /\ ReadError(last.pre, last.figmaPath) = "ok"
  /\ ReadError(last.pre, last.actualPath) = "ok"

FigmaImg == last.pre[last.figmaPath].img

ActualImg == last.pre[last.actualPath].img

\* A PixelBuffer: positive width and height.
ValidImage(img) == img.width > 0 /\ img.height > 0

\* The same call with the two paths exchanged.
Swapped == compareImages(last.pre, last.actualPath, last.figmaPath, last.threshold, TRUE)

DimsDiffer(a, b) == a.width # b.width \/ a.height # b.height

\* ------------------------------------------------------------------- C1

\* C1: whenever the two decoded images differ in width or in height, a
\* call that returns has sizeMismatch = true and diffRatio = 1, and so has
\* the call with the two paths exchanged; between two images of positive
\* width and height the call does return, in both orders.
C1_SizeMismatchSymmetric ==
  (Decoded /\ DimsDiffer(FigmaImg, ActualImg)) =>
    /\ HasReturned => (last.result.sizeMismatch /\ last.result.diffRatio = One)
    /\ Swapped.status = "returned" =>
         (Swapped.result.sizeMismatch /\ Swapped.result.diffRatio = One)
    /\ (ValidImage(FigmaImg) /\ ValidImage(ActualImg)) =>
         (HasReturned /\ Swapped.status = "returned")

\* A 1x2 reference against a 1x1 candidate (same width, other height).
C1_Witness ==
  /\ HasReturned /\ Decoded
  /\ last.figmaPath = RefPath /\ last.actualPath = ShotPath
  /\ FigmaImg.width = 1 /\ FigmaImg.height = 2
  /\ ActualImg.width = 1 /\ ActualImg.height = 1
  /\ last.result.sizeMismatch

\* ------------------------------------------------------------------- C2

\* The diff artifact of the last call, as it is on disk after the call.
Artifact == fs[last.result.diffImagePath].img

\* C2: on a size mismatch the artifact is 2 * max(W1, W2) wide and
\* max(H1, H2) high, holds the reference from (0, 0) and the candidate from
\* (max(W1, W2), 0), and is opaque white everywhere else.
C2_SideBySideArtifact ==
  (HasReturned /\ last.result.sizeMismatch) =>
    LET mw == Max2(FigmaImg.width, ActualImg.width)
        mh == Max2(FigmaImg.height, ActualImg.height)
    IN  /\ last.result.diffImagePath \in DOMAIN fs
        /\ Artifact.width = 2 * mw
        /\ Artifact.height = mh
        /\ Len(Artifact.data) = 2 * mw * mh
        /\ \A x \in 0..(2 * mw - 1), y \in 0..(mh - 1) :
             LET inRef  == x < FigmaImg.width /\ y < FigmaImg.height
                 inCand == x >= mw /\ x - mw < ActualImg.width /\ y < ActualImg.height
             IN  /\ inRef => PixelAt(Artifact, x, y) = PixelAt(FigmaImg, x, y)
                 /\ inCand => PixelAt(Artifact, x, y) = PixelAt(ActualImg, x - mw, y)
                 /\ (~inRef /\ ~inCand) => PixelAt(Artifact, x, y) = <<255, 255, 255, 255>>

\* 1x2 against 2x1 (the 50x50 against 60x40 of the scenario): a 4x2 canvas.
C2_Witness ==
  /\ HasReturned /\ last.result.sizeMismatch
  /\ FigmaImg.width = 1 /\ FigmaImg.height = 2
  /\ ActualImg.width = 2 /\ ActualImg.height = 1
  /\ Artifact.width = 4 /\ Artifact.height = 2

\* ------------------------------------------------------------------- C3

\* C3: for two images of the same width and height, a call that returns
\* has sizeMismatch = false, totalPixels = width * height, diffPixels = the
\* count of pixelmatch for the two buffers at the call's threshold, and
\* diffRatio = diffPixels / (width * height); for images of positive width
\* and height it returns.
C3_EqualSizeResult ==
  (Decoded /\ ~DimsDiffer(FigmaImg, ActualImg)) =>
    LET n == FigmaImg.width * FigmaImg.height
        r == last.result
    IN  /\ ValidImage(FigmaImg) => HasReturned
        /\ HasReturned =>
             /\ r.sizeMismatch = FALSE
             /\ r.totalPixels = n
             /\ r.diffPixels = pixelmatch(FigmaImg.data, ActualImg.data, last.threshold)
             /\ n > 0 => /\ r.diffRatio.kind = "finite"
                         /\ r.diffRatio.num * n = r.diffPixels * r.diffRatio.den
             /\ n = 0 => r.diffRatio = NaN

\* Black against navy, 2x2, at 0.20: no pixel counted, though all four are
\* at the default 0.15.
C3_Witness ==
  /\ HasReturned /\ Decoded
  /\ FigmaImg = Uniform(2, 2, Black) /\ ActualImg = Uniform(2, 2, Navy)
  /\ last.threshold = 4
  /\ last.result.diffPixels = 0
  /\ pixelmatch(FigmaImg.data, ActualImg.data, 3) = 4

\* ------------------------------------------------------------------- C4

\* C4: every result returned has 0 <= diffRatio <= 1 and
\* diffPixels <= totalPixels.
C4_RatioInRange ==
  HasReturned =>
    /\ last.result.diffRatio.kind = "finite"
    /\ 0 <= last.result.diffRatio.num
    /\ last.result.diffRatio.num <= last.result.diffRatio.den
    /\ last.result.diffPixels <= last.result.totalPixels

\* ------------------------------------------------------------------- C5

\* C5: a call that returns has written one file and no other: the file at
\* the returned diffImagePath exists and is a PNG, and every other path
\* holds what it held before the call (and exists only if it did).
C5_OneArtifactWritten ==
  HasReturned =>
    /\ last.result.diffImagePath \in DOMAIN fs
    /\ fs[last.result.diffImagePath].kind = "png"
    /\ fs[last.result.diffImagePath].img.width =
         (IF last.result.sizeMismatch THEN 2 ELSE 1) * Max2(FigmaImg.width, ActualImg.width)
    /\ \A p \in (DOMAIN fs) \cup (DOMAIN last.pre) :
         p # last.result.diffImagePath =>
           (p \in DOMAIN fs /\ p \in DOMAIN last.pre /\ fs[p] = last.pre[p])

\* A size-mismatch call whose artifact path held no file before the call.
C5_Witness ==
  /\ HasReturned /\ last.result.sizeMismatch
  /\ last.actualPath = ShotPath
  /\ last.result.diffImagePath \notin DOMAIN last.pre
  /\ last.result.diffImagePath \in DOMAIN fs

\* ------------------------------------------------------------------- C6

EndsWith(s, suffix) ==
  Len(s) >= Len(suffix) /\ SubSeq(s, Len(s) - Len(suffix) + 1, Len(s)) = suffix

\* The path with its last Len(suffix) characters replaced by rep.
ReplaceSuffix(s, suffix, rep) == SubSeq(s, 1, Len(s) - Len(suffix)) \o rep

\* C6: for a candidate path ending in ".png", the artifact path is the
\* candidate path with that trailing ".png" replaced by "-diff.png", also
\* when ".png" occurs earlier in the path.
C6_TrailingSuffixReplaced ==
  (HasReturned /\ EndsWith(last.actualPath, PNG_EXT)) =>
    last.result.diffImagePath = ReplaceSuffix(last.actualPath, PNG_EXT, DIFF_EXT)

\* ------------------------------------------------------------------- C7

\* C7: a call that decodes an image of width 0 or height 0 fails with a
\* ValidationError.
C7_ZeroSizeRejected ==
  (Decoded /\ (~ValidImage(FigmaImg) \/ ~ValidImage(ActualImg))) =>
    (last.status = "threw" /\ last.error = "ValidationError")

\* ------------------------------------------------------------------- C8

\* C8: a call one of whose input files is missing or does not decode as a
\* PNG throws, returns no result, and leaves the file system as it was.
C8_ReadFailureThrows ==
  (Called /\ ~Decoded) =>
    /\ last.status = "threw"
    /\ last.error \in {"ENOENT", "DecodeError"}
    /\ last.result = NoResult
    /\ fs = last.pre

\* The reference decodes, the candidate file is corrupt.
C8_Witness ==
  /\ Called
  /\ ReadError(last.pre, last.figmaPath) = "ok"
  /\ ReadError(last.pre, last.actualPath) = "DecodeError"
  /\ last.status = "threw"

\* ------------------------------------------------------------------- C9

\* C9: a call whose reference and candidate hold the same pixel data of
\* positive width and height returns diffRatio = 0, diffPixels = 0 and
\* sizeMismatch = false, whatever the threshold.
C9_Identity ==
  (Decoded /\ ValidImage(FigmaImg) /\ FigmaImg = ActualImg) =>
    /\ HasReturned
    /\ last.result.diffPixels = 0
    /\ last.result.diffRatio = Finite(0, 1)
    /\ last.result.sizeMismatch = FALSE

\* Two different files holding the same 2x2 image, compared at threshold 0.
C9_Witness ==
  /\ HasReturned /\ Decoded
  /\ last.figmaPath = RefPath /\ last.actualPath = ShotPath
  /\ FigmaImg = Spot(2, 2, Navy) /\ ActualImg = FigmaImg
  /\ last.threshold = 0

\* ------------------------------------------------------------------ C10

\* diffPixels of the last call's images at threshold k.
DiffPixelsAt(k) ==
  compareImages(last.pre, last.figmaPath, last.actualPath, k, TRUE).result.diffPixels

\* C10: for two images of the same size, the diffPixels returned at a
\* threshold t2 >= t1 is at most the diffPixels returned at t1.
C10_ThresholdMonotone ==
  (Decoded /\ ~DimsDiffer(FigmaImg, ActualImg) /\ HasReturned) =>
    \A t2 \in Thresholds :
      t2 >= last.threshold => DiffPixelsAt(t2) <= last.result.diffPixels

\* Black with a navy spot against all navy: three pixels differ at 0.15,
\* none at 0.20.
C10_Witness ==
  /\ HasReturned /\ Decoded
  /\ FigmaImg = Spot(2, 2, Navy) /\ ActualImg = Uniform(2, 2, Navy)
  /\ last.threshold = 3
  /\ last.result.diffPixels = 3
  /\ DiffPixelsAt(4) = 0

\* ------------------------------------------------------------------ C11

\* The positions at which the two images of the last call are not
\* bit-identical.
NonIdentical == {i \in 1..Len(FigmaImg.data) : FigmaImg.data[i] # ActualImg.data[i]}

\* The positions at which they still differ once each pixel is blended
\* over the white background.
BlendedApart ==
  {i \in 1..Len(FigmaImg.data) : Blended(FigmaImg.data[i]) # Blended(ActualImg.data[i])}

\* C11 as stated: at threshold 0 diffPixels is the number of positions that
\* are not bit-identical, and at threshold 1 it is 0.
C11_BoundaryBitIdentical ==
  (Decoded /\ ~DimsDiffer(FigmaImg, ActualImg) /\ HasReturned) =>
    /\ last.threshold = 0 => last.result.diffPixels = Cardinality(NonIdentical)
    /\ last.threshold = 20 => last.result.diffPixels = 0

\* C11 as amended: at threshold 0 diffPixels is the number of positions
\* whose pixels differ after blending over the background (two fully
\* transparent pixels are equal whatever their RGB), and at threshold 1 it
\* is 0.
C11_BoundaryBlended ==
  (Decoded /\ ~DimsDiffer(FigmaImg, ActualImg) /\ HasReturned) =>
    /\ last.threshold = 0 => last.result.diffPixels = Cardinality(BlendedApart)
    /\ last.threshold = 20 => last.result.diffPixels = 0

\* Transparent black against transparent red at threshold 0: four
\* positions that are not bit-identical, none counted.
C11_Witness ==
  /\ HasReturned /\ Decoded
  /\ FigmaImg = Uniform(2, 2, ClearK) /\ ActualImg = Uniform(2, 2, ClearR)
  /\ last.threshold = 0
  /\ Cardinality(NonIdentical) = 4
  /\ last.result.diffPixels = 0

\* ------------------------------------------------------------------ C17

\* C17: a call that returns has written to a path that is neither of its
\* input paths, and both input files hold what they held before the call.
C17_InputsUntouched ==
  HasReturned =>
    /\ last.result.diffImagePath # last.figmaPath
    /\ last.result.diffImagePath # last.actualPath
    /\ fs[last.figmaPath] = last.pre[last.figmaPath]
    /\ fs[last.actualPath] = last.pre[last.actualPath]

\* ------------------------------------------- the Button, rendered by props

InitButton ==
  /\ fs = MkFs(AbsentFile, AbsentFile)
  /\ last = NoCall
  /\ button = DefaultButton
  /\ test = NoTest
  /\ excludeAA = FALSE
  /\ par = NoPar

\* One render of <Button variant size color disabled>.
Render(variant, size, color, disabled) ==
  /\ button' = Button(variant, size, color, disabled)
  /\ UNCHANGED <<fs, last, test, par, excludeAA>>

NextButton ==
  \E variant \in VARIANTS, size \in SIZES, color \in COLORS, disabled \in BOOLEAN :
    Render(variant, size, color, disabled)

SpecButton == InitButton /\ [][NextButton]_vars

\* ------------------------------------------------------------------ C14

\* C14: a disabled button's style variables are exactly
\* --btn-disabled-bg and --btn-disabled-border; the background is
\* rgba(0,0,0,0.12) iff the variant is contained, the border is
\* rgba(0,0,0,0.12) iff the variant is outlined, each is transparent
\* otherwise, and no colour gives another style.
C14_DisabledVars ==
  button.disabled =>
    /\ DOMAIN button.style = {"--btn-disabled-bg", "--btn-disabled-border"}
    /\ button.style["--btn-disabled-bg"] \in {<<"rgba(0,0,0,0.12)">>, <<"transparent">>}
    /\ button.style["--btn-disabled-border"] \in {<<"rgba(0,0,0,0.12)">>, <<"transparent">>}
    /\ (button.style["--btn-disabled-bg"] = <<"rgba(0,0,0,0.12)">>)
         <=> (button.variant = "contained")
    /\ (button.style["--btn-disabled-border"] = <<"rgba(0,0,0,0.12)">>)
         <=> (button.variant = "outlined")
    /\ \A c \in COLORS : buildVars(button.variant, c, TRUE) = button.style

\* A disabled outlined button of the error colour.
C14_Witness ==
  /\ button.disabled
  /\ button.variant = "outlined"
  /\ button.color = "error"
  /\ button.style["--btn-disabled-border"] = <<"rgba(0,0,0,0.12)">>

\* ------------------------------------------------------------------ C15

\* C15: an enabled button carries its colour's main value of the test's
\* TOKENS table: as --btn-bg when contained, as --btn-color (with a
\* transparent --btn-bg) when outlined or text; every combination of
\* variant and colour has these variables.
C15_EnabledTokens ==
  ~button.disabled =>
    /\ {"--btn-bg", "--btn-color"} \subseteq DOMAIN button.style
    /\ button.variant = "contained" =>
         button.style["--btn-bg"] = <<TOKENS[button.color]>>
    /\ button.variant \in {"outlined", "text"} =>
         /\ button.style["--btn-bg"] = <<"transparent">>
         /\ button.style["--btn-color"] = <<TOKENS[button.color]>>

\* An enabled text button of the warning colour.
C15_Witness ==
  /\ ~button.disabled
  /\ button.variant = "text"
  /\ button.color = "warning"
  /\ button.style["--btn-color"] = <<"#FFA100">>

\* -------------------------------------- the test "<key> - matches Figma"

\* The reference of the key is downloaded, corrupt or absent; no screenshot
\* has been taken.
InitTest ==
  /\ \E r \in MaybeFile :
       fs = [p \in {q \in {RefPath} : r.kind # "absent"} |-> r]
  /\ last = NoCall
  /\ button = DefaultButton
  /\ test = NoTest
  /\ excludeAA = FALSE
  /\ par = NoPar

\* if (!fs.existsSync(figmaRef)) test.skip(...)
SkipTest ==
  /\ test.pc = "start"
  /\ RefPath \notin DOMAIN fs
  /\ test' = TestState("done", <<>>, "skipped", FALSE)
  /\ UNCHANGED <<fs, last, button, par, excludeAA>>

\* openStory, expect(btn).toBeVisible(): the button does not show.
NotVisible ==
  /\ test.pc = "start"
  /\ RefPath \in DOMAIN fs
  /\ test' = TestState("done", <<>>, "errored", FALSE)
  /\ UNCHANGED <<fs, last, button, par, excludeAA>>

\* btn.screenshot({path: screenshotPath}): the picture of a visible element,
\* of positive width and height.
Screenshot(img) ==
  /\ test.pc = "start"
  /\ RefPath \in DOMAIN fs
  /\ img.width > 0 /\ img.height > 0
  /\ fs' = WriteFile(fs, ShotPath, img)
  /\ test' = [test EXCEPT !.pc = "compare"]
  /\ UNCHANGED <<last, button, par, excludeAA>>

\* const result = compareImages(figmaRef, screenshotPath, FIGMA_DIFF_THRESHOLD)
TestCompare(encodes) ==
  /\ test.pc = "compare"
  /\ LET out == compareImages(fs, RefPath, ShotPath, FIGMA_DIFF_THRESHOLD, encodes)
     IN  /\ fs' = out.fs
         /\ last' = CallRecord(out, RefPath, ShotPath, FIGMA_DIFF_THRESHOLD, fs)
         /\ test' = IF out.status = "returned"
                    THEN [test EXCEPT !.pc = "attachDiff"]
                    ELSE TestState("done", <<>>, "errored", FALSE)
  /\ UNCHANGED <<button, par, excludeAA>>

\* await test.info().attach(`diff - ${key}`, {path: result.diffImagePath})
AttachDiff ==
  /\ test.pc = "attachDiff"
  /\ last.result.diffImagePath \in DOMAIN fs
  /\ test' = [test EXCEPT !.pc = "attachActual",
                          !.attachments = Append(@, Attachment("diff", last.result.diffImagePath))]
  /\ UNCHANGED <<fs, last, button, par, excludeAA>>

\* await test.info().attach(`actual - ${key}`, {path: screenshotPath})
AttachActual ==
  /\ test.pc = "attachActual"
  /\ test' = [test EXCEPT !.pc = "attachFigma",
                          !.attachments = Append(@, Attachment("actual", ShotPath))]
  /\ UNCHANGED <<fs, last, button, par, excludeAA>>

\* await test.info().attach(`figma - ${key}`, {path: figmaRef})
AttachFigma ==
  /\ test.pc = "attachFigma"
  /\ test' = [test EXCEPT !.pc = "gate",
                          !.attachments = Append(@, Attachment("figma", RefPath))]
  /\ UNCHANGED <<fs, last, button, par, excludeAA>>

\* The warning or the expectation that ends the test.
Gate ==
  /\ test.pc = "gate"
  /\ test' = [test EXCEPT !.pc = "done",
                          !.outcome = GateOutcome(last.result).outcome,
                          !.warned = GateOutcome(last.result).warned]
  /\ UNCHANGED <<fs, last, button, par, excludeAA>>

NextTest ==
  \/ SkipTest
  \/ NotVisible
  \/ \E img \in Images : Screenshot(img)
  \/ \E encodes \in BOOLEAN : TestCompare(encodes)
  \/ AttachDiff
  \/ AttachActual
  \/ AttachFigma
  \/ Gate

SpecTest == InitTest /\ [][NextTest]_vars

\* ------------------------------------------------------------------ C16

\* The gate has been evaluated on a result of compareImages.
Gated == test.outcome \in {"passed", "failed"}

\* C16: once the gate is evaluated, the diff artifact, the screenshot and
\* the reference are attached, in this order; a size-mismatch result has
\* not failed the test and has logged a warning; any other result has
\* failed the test exactly when its diffRatio exceeds 0.20.  Until the
\* three are attached the outcome is pending.
C16_GateAfterAttachments ==
  /\ Gated =>
       /\ last.status = "returned"
       /\ test.attachments =
            << [name |-> "diff", path |-> last.result.diffImagePath],
               [name |-> "actual", path |-> ShotPath],
               [name |-> "figma", path |-> RefPath] >>
       /\ \A i \in 1..3 : test.attachments[i].path \in DOMAIN fs
       /\ last.result.sizeMismatch => (test.outcome = "passed" /\ test.warned)
       /\ ~last.result.sizeMismatch =>
            /\ ~test.warned
            /\ (test.outcome = "failed") <=>
                 (last.result.diffRatio.num * 20 > 4 * last.result.diffRatio.den)
  /\ (last.status = "returned" /\ Len(test.attachments) < 3) => test.outcome = "pending"

\* A size mismatch that passed with a warning ...
C16_WitnessMismatch ==
  /\ Gated /\ last.result.sizeMismatch /\ test.outcome = "passed" /\ test.warned

\* ... and an equal-size result above 0.20 (here 1) that failed the test
\* with the three attachments made.
C16_Witness ==
  /\ Gated /\ ~last.result.sizeMismatch
  /\ last.result.diffRatio = One
  /\ test.outcome = "failed"
  /\ Len(test.attachments) = 3

\* ------------------------------- two calls side by side, file operation
\* by file operation

\* The artifact of the screenshot, as a path a caller may hand in.
ShotDiffPath == <<"a">> \o DIFF_EXT

ParPaths == {RefPath, ShotPath, BarePath, ShotDiffPath}

ParImages == {Uniform(1, 1, Black), Uniform(1, 1, Navy), Uniform(MaxDim, 1, Black)}

\* Two calls with distinct candidate paths, at the default threshold, on a
\* file system holding a reference and (maybe) the candidates.
InitPar ==
  /\ \E r \in ParImages, a \in ParImages \cup {NoImage},
        f1 \in ParPaths, a1 \in ParPaths, f2 \in ParPaths, a2 \in ParPaths :
       /\ a1 # a2
       /\ fs = MkFs(PngFile(r), IF a = NoImage THEN AbsentFile ELSE PngFile(a))
       /\ par = [fs0 |-> fs,
                 proc |-> [i \in ProcIds |->
                            IF i = 1 THEN NewProc(f1, a1) ELSE NewProc(f2, a2)]]
  /\ last = NoCall
  /\ button = DefaultButton
  /\ test = NoTest
  /\ excludeAA = FALSE

\* The default threshold, 0.15.
ParThreshold == 3

ProcThrew(p, e) == [p EXCEPT !.pc = "done", !.status = "threw", !.error = e]

\* const figmaImg = PNG.sync.read(fs.readFileSync(figmaPath))
ReadFigma(i) ==
  LET p == par.proc[i]
  IN  /\ p.pc = "readFigma"
      /\ par' = [par EXCEPT !.proc[i] =
                   IF ReadError(fs, p.figmaPath) # "ok"
                   THEN ProcThrew(p, ReadError(fs, p.figmaPath))
                   ELSE [p EXCEPT !.pc = "readActual", !.figmaImg = fs[p.figmaPath].img]]
      /\ UNCHANGED <<fs, last, button, test, excludeAA>>

\* const actualImg = PNG.sync.read(fs.readFileSync(actualPath))
ReadActual(i) ==
  LET p == par.proc[i]
  IN  /\ p.pc = "readActual"
      /\ par' = [par EXCEPT !.proc[i] =
                   IF ReadError(fs, p.actualPath) # "ok"
                   THEN ProcThrew(p, ReadError(fs, p.actualPath))
                   ELSE [p EXCEPT !.pc = "write", !.actualImg = fs[p.actualPath].img]]
      /\ UNCHANGED <<fs, last, button, test, excludeAA>>

\* The rest of the call: the comparison in memory, the one write, the return.
Finish(i, encodes) ==
  LET p   == par.proc[i]
      out == IF ~SameSize(p.figmaImg, p.actualImg)
             THEN MismatchBranch(fs, p.figmaImg, p.actualImg, p.actualPath)
             ELSE EqualBranch(fs, p.figmaImg, p.actualImg, p.actualPath, ParThreshold, encodes)
  IN  /\ p.pc = "write"
      /\ fs' = out.fs
      /\ par' = [par EXCEPT !.proc[i] =
                   [p EXCEPT !.pc = "done", !.status = out.status,
                             !.error = out.error, !.result = out.result]]
      /\ UNCHANGED <<last, button, test, excludeAA>>

NextPar ==
  \E i \in ProcIds :
    \/ ReadFigma(i)
    \/ ReadActual(i)
    \/ \E encodes \in BOOLEAN : Finish(i, encodes)

SpecPar == InitPar /\ [][NextPar]_vars

\* ------------------------------------------------------------------ C12

AllDone == \A i \in ProcIds : par.proc[i].pc = "done"

Outcome(x) == [status |-> x.status, error |-> x.error, result |-> x.result]

\* Call i and then call j, one after the other, from the file system the
\* two calls started from: the two outcomes and the file system left.
OneAfterTheOther(i, j) ==
  LET first  == compareImages(par.fs0, par.proc[i].figmaPath, par.proc[i].actualPath,
                              ParThreshold, TRUE)
      second == compareImages(first.fs, par.proc[j].figmaPath, par.proc[j].actualPath,
                              ParThreshold, TRUE)
  IN  [fs |-> second.fs,
       out |-> [k \in ProcIds |-> IF k = i THEN Outcome(first) ELSE Outcome(second)]]

\* What the interleaved run has produced.
SideBySideRun == [fs |-> fs, out |-> [k \in ProcIds |-> Outcome(par.proc[k])]]

\* The path the code derives for the artifact of call i.
ArtifactPath(i) == DiffPathOf(par.proc[i].actualPath)

InputPaths(i) == {par.proc[i].figmaPath, par.proc[i].actualPath}

\* C12 as stated: once two calls with distinct candidate paths are both
\* done, however their file operations interleaved, their two results and
\* the files are those of running them one after the other, in either
\* order, and their artifact paths are distinct.
C12_DistinctCandidatesIndependent ==
  (par.proc[1].actualPath # par.proc[2].actualPath /\ AllDone) =>
    /\ ArtifactPath(1) # ArtifactPath(2)
    /\ SideBySideRun = OneAfterTheOther(1, 2)
    /\ SideBySideRun = OneAfterTheOther(2, 1)

\* C12 as amended: two calls with distinct candidate paths, neither of
\* whose artifact path is an input path of the other, write to distinct
\* artifact paths, and once both are done their results and the files are
\* those of either sequential order.
C12_DisjointCallsIndependent ==
  (/\ par.proc[1].actualPath # par.proc[2].actualPath
   /\ ArtifactPath(1) \notin InputPaths(2)
   /\ ArtifactPath(2) \notin InputPaths(1)) =>
    /\ ArtifactPath(1) # ArtifactPath(2)
    /\ AllDone => (SideBySideRun = OneAfterTheOther(1, 2)
                     /\ SideBySideRun = OneAfterTheOther(2, 1))

\* Both calls have returned, each having written its own artifact: the
\* first a new file, the second over its own candidate.
C12_Witness ==
  /\ AllDone
  /\ \A i \in ProcIds : par.proc[i].status = "returned"
  /\ par.proc[1].actualPath = ShotPath /\ par.proc[2].actualPath = BarePath
  /\ par.proc[1].figmaPath = RefPath /\ par.proc[2].figmaPath = RefPath
  /\ ArtifactPath(1) \in DOMAIN fs /\ ArtifactPath(1) \notin DOMAIN par.fs0
  /\ fs[BarePath] # par.fs0[BarePath]


\* ------------------------------------------------------------------ C13
\* A caller asking for anti-aliased pixels to be left out.

\* Colours of three brightnesses once blended over white: 0, 14.08 and 255.
Shades == {Black, Navy, ClearK}

\* 2 x 3 images: a black row, a row of any two shades, a row of one shade.
\* Black over (Navy, Black) over white is an anti-aliased step.
AAImages ==
  {Image(2, 3, <<Black, Black, l, r, b, b>>) : l \in Shades, r \in Shades, b \in Shades}

InitAA ==
  /\ \E r \in AAImages, a \in AAImages : fs = MkFs(PngFile(r), PngFile(a))
  /\ last = NoCall
  /\ button = DefaultButton
  /\ test = NoTest
  /\ par = NoPar
  /\ excludeAA = FALSE

\* compareImages(figmaPath, actualPath, threshold, flag): the function
\* declares three parameters, so a fourth argument is never read.
CompareAA(threshold, flag) ==
  /\ last.status = "none"
  /\ LET out == compareImages(fs, RefPath, ShotPath, threshold, TRUE)
     IN  /\ fs' = out.fs
         /\ last' = CallRecord(out, RefPath, ShotPath, threshold, fs)
  /\ excludeAA' = flag
  /\ UNCHANGED <<button, test, par>>

NextAA == \E threshold \in Thresholds, flag \in BOOLEAN : CompareAA(threshold, flag)

SpecAA == InitAA /\ [][NextAA]_vars

\* The pixels of the last call's images that are over the threshold.
OverThreshold ==
  {i \in 1..Len(FigmaImg.data) :
    colorDelta(FigmaImg.data[i], ActualImg.data[i]) > maxDelta(last.threshold)}

\* Those of them that the anti-aliasing test sets aside.
AntiAliased == {i \in OverThreshold : AntiAliasedAt(FigmaImg, ActualImg, i)}

\* C13 (as stated): the call takes an anti-aliasing-exclusion flag; when
\* the caller opts in, the pixels classified as anti-aliased are not
\* counted in diffPixels, and when the caller does not, they are counted.
C13_FlagHonoured ==
  (HasReturned /\ ~last.result.sizeMismatch) =>
    last.result.diffPixels =
      IF excludeAA THEN Cardinality(OverThreshold \ AntiAliased)
      ELSE Cardinality(OverThreshold)

\* C13 (amended): compareImages takes no anti-aliasing-exclusion flag;
\* whether or not the caller asks for exclusion, every pixel over the
\* threshold is counted in diffPixels, those classified as anti-aliased
\* included.
C13_AntiAliasedAlwaysCounted ==
  (HasReturned /\ ~last.result.sizeMismatch) =>
    last.result.diffPixels = Cardinality(OverThreshold)

\* The caller asked for exclusion, and a pixel classified as anti-aliased
\* was counted.
C13_Witness ==
  /\ HasReturned
  /\ ~last.result.sizeMismatch
  /\ excludeAA
  /\ AntiAliased # {}
  /\ last.result.diffPixels = Cardinality(OverThreshold)
  /\ last.result.diffPixels > Cardinality(OverThreshold \ AntiAliased)

====
